---------------------------- MODULE Spec2Model ----------------------------
(***************************************************************************)
(* ReST-style docstring parsing and rendering (docstring_parser/rest.py).  *)
(*                                                                         *)
(* A text is a sequence of one-character strings.  parse, compose and the  *)
(* library functions they call (str methods, inspect.cleandoc, the three   *)
(* regular expressions) are operators on such sequences.  The state        *)
(* machine feeds one input text through parse, compose, parse and compose  *)
(* again.                                                                  *)
(***************************************************************************)
EXTENDS Naturals, Sequences, FiniteSets

VARIABLES text, pc, ret, style, out, ret2, out2

vars == <<text, pc, ret, style, out, ret2, out2>>

---------------------------------------------------------------------------
(* Python values *)

\* Python's None, and a present optional value.
None == <<>>
Some(x) == <<x>>

Min(S) == CHOOSE x \in S : \A y \in S : x <= y
Max(S) == CHOOSE x \in S : \A y \in S : x >= y

Chars(s) == {s[i] : i \in 1..Len(s)}

\* s[:n] and s[n:]
Take(s, n) == IF n >= Len(s) THEN s ELSE SubSeq(s, 1, n)
Drop(s, n) == IF n >= Len(s) THEN <<>> ELSE SubSeq(s, n + 1, Len(s))

\* str.isspace on one character (the characters of the modelled alphabet)
IsSpace(c) == c \in {" ", "\n"}

\* len(s) - len(s.lstrip(chars)): the number of leading characters in cs
LeadCount(s, cs) ==
    IF \E i \in 1..Len(s) : s[i] \notin cs
      THEN Min({i \in 1..Len(s) : s[i] \notin cs}) - 1
      ELSE Len(s)

\* len(s.rstrip(chars))
KeepCount(s, cs) ==
    IF \E i \in 1..Len(s) : s[i] \notin cs
      THEN Max({i \in 1..Len(s) : s[i] \notin cs})
      ELSE 0

Whitespace == {" ", "\n"}

lstrip(s) == Drop(s, LeadCount(s, Whitespace))
rstrip(s) == Take(s, KeepCount(s, Whitespace))
strip(s) == lstrip(rstrip(s))
lstripChars(s, cs) == Drop(s, LeadCount(s, cs))
rstripChars(s, cs) == Take(s, KeepCount(s, cs))

startswith(s, p) == Len(s) >= Len(p) /\ Take(s, Len(p)) = p
endswith(s, p) == Len(s) >= Len(p) /\ Drop(s, Len(s) - Len(p)) = p

\* s.split(sep, 1) for a one-character sep
split1(s, sep) ==
    IF sep \in Chars(s)
      THEN LET i == Min({j \in 1..Len(s) : s[j] = sep})
           IN  <<Take(s, i - 1), Drop(s, i)>>
      ELSE <<s>>

\* s.split(sep) for a one-character sep
RECURSIVE split(_, _)
split(s, sep) ==
    IF sep \in Chars(s)
      THEN LET i == Min({j \in 1..Len(s) : s[j] = sep})
           IN  <<Take(s, i - 1)>> \o split(Drop(s, i), sep)
      ELSE <<s>>

\* s.split(): the whitespace-separated tokens
RECURSIVE splitWs(_)
splitWs(s) ==
    LET t == lstrip(s)
    IN  IF t = <<>> THEN <<>>
        ELSE LET n == LeadCount(t, {c \in Chars(t) : ~IsSpace(c)})
             IN  <<Take(t, n)>> \o splitWs(Drop(t, n))

\* s.splitlines(): the lines, without a last empty one
splitlines(s) ==
    LET ls == split(s, "\n")
    IN  IF ls[Len(ls)] = <<>> THEN Take(ls, Len(ls) - 1) ELSE ls

\* sep.join(parts)
RECURSIVE join(_, _)
join(parts, sep) ==
    IF parts = <<>> THEN <<>>
    ELSE IF Len(parts) = 1 THEN parts[1]
    ELSE parts[1] \o sep \o join(Tail(parts), sep)


\* inspect.cleandoc(doc): the first line loses its leading whitespace, the
\* other lines the smallest indentation of the non-blank ones among them,
\* and leading and trailing empty lines are removed.
cleandoc(doc) ==
    LET lines == split(doc, "\n")
        indents == {LeadCount(lines[i], Whitespace) :
                      i \in {j \in 2..Len(lines) : lstrip(lines[j]) # <<>>}}
        cleaned == [i \in 1..Len(lines) |->
                      IF i = 1 THEN lstrip(lines[1])
                      ELSE IF indents # {} THEN Drop(lines[i], Min(indents))
                      ELSE lines[i]]
        full == {i \in 1..Len(lines) : cleaned[i] # <<>>}
    IN  IF full = {} THEN <<>>
        ELSE join(SubSeq(cleaned, Min(full), Max(full)), <<"\n">>)

---------------------------------------------------------------------------
(* common.py: the keyword families and the record types *)

PARAM_KEYWORDS == {<<"p","a","r","a","m">>}
RETURNS_KEYWORDS == {<<"r","e","t","u","r","n","s">>}
YIELDS_KEYWORDS == {<<"y","i","e","l","d","s">>}
RAISES_KEYWORDS == {<<"r","a","i","s","e","s">>}
DEPRECATION_KEYWORDS == {<<"d","e","p","r","e","c","a","t","e","d">>}

\* DocstringMeta and its subclasses; a field a class lacks is None.
DocstringMeta(args, description) ==
    [kind |-> "meta", args |-> args, description |-> description,
     arg_name |-> None, type_name |-> None, is_optional |-> None,
     default |-> None, is_generator |-> None, version |-> None]

DocstringParam(args, description, arg_name, type_name, is_optional, default) ==
    [kind |-> "param", args |-> args, description |-> description,
     arg_name |-> Some(arg_name), type_name |-> type_name,
     is_optional |-> is_optional, default |-> default,
     is_generator |-> None, version |-> None]

DocstringReturns(args, description, type_name, is_generator) ==
    [kind |-> "returns", args |-> args, description |-> description,
     arg_name |-> None, type_name |-> type_name, is_optional |-> None,
     default |-> None, is_generator |-> Some(is_generator), version |-> None]

DocstringRaises(args, description, type_name) ==
    [kind |-> "raises", args |-> args, description |-> description,
     arg_name |-> None, type_name |-> type_name, is_optional |-> None,
     default |-> None, is_generator |-> None, version |-> None]

DocstringDeprecated(args, description, version) ==
    [kind |-> "deprecated", args |-> args, description |-> description,
     arg_name |-> None, type_name |-> None, is_optional |-> None,
     default |-> None, is_generator |-> None, version |-> version]

\* Docstring(): no descriptions, both flags false, no meta.
Docstring ==
    [short_description |-> None, long_description |-> None,
     blank_after_short_description |-> FALSE,
     blank_after_long_description |-> FALSE, meta |-> <<>>]

\* What a call ends with: a returned value, or a raised exception.
Return(v) == [status |-> "ok", value |-> Some(v)]
Raise(ex) == [status |-> ex, value |-> None]

---------------------------------------------------------------------------
(* _build_meta *)

Digits == {"0","1","2","3","4","5","6","7","8","9"}
Lower == {"a","b","c","d","e","f","g","h","i","j","k","l","m",
          "n","o","p","q","r","s","t","u","v","w","x","y","z"}
Upper == {"A","B","C","D","E","F","G","H","I","J","K","L","M",
          "N","O","P","Q","R","S","T","U","V","W","X","Y","Z"}

DefaultsTo == <<"d","e","f","a","u","l","t","s"," ","t","o"," ">>

\* MatchDefault with flags=re.DOTALL | re.I: the phrase in any case.
LowerCase(c) ==
    LET lo == <<"a","b","c","d","e","f","g","h","i","j","k","l","m",
                "n","o","p","q","r","s","t","u","v","w","x","y","z">>
        up == <<"A","B","C","D","E","F","G","H","I","J","K","L","M",
                "N","O","P","Q","R","S","T","U","V","W","X","Y","Z">>
    IN  IF \E i \in 1..26 : up[i] = c
          THEN lo[CHOOSE i \in 1..26 : up[i] = c] ELSE c

MatchDefaultIgnoreCase(desc) ==
    LET n == Len(DefaultsTo)
        low == [i \in 1..Len(desc) |-> LowerCase(desc[i])]
        at == {i \in 1..Len(desc) : i + n <= Len(desc)
                                    /\ SubSeq(low, i, i + n - 1) = DefaultsTo}
    IN  IF at = {} THEN None ELSE Some(Drop(desc, Max(at) + n - 1))

\* re.match(r".*defaults to (.+)", desc, flags=re.DOTALL): the greedy .*
\* stops at the last "defaults to " that has a character after it; the
\* result is group(1), or None.
MatchDefault(desc) ==
    LET n == Len(DefaultsTo)
        at == {i \in 1..Len(desc) : i + n <= Len(desc)
                                    /\ SubSeq(desc, i, i + n - 1) = DefaultsTo}
    IN  IF at = {} THEN None ELSE Some(Drop(desc, Max(at) + n - 1))

\* re.search(r"^(?P<version>v?((?:\d+)(?:\.[0-9a-z\.]+))) (?P<desc>.+)",
\*           desc, flags=re.I): None, or the groups version and desc.
MatchVersion(desc) ==
    LET v == IF desc # <<>> /\ desc[1] \in {"v", "V"} THEN 1 ELSE 0
        nd == LeadCount(Drop(desc, v), Digits)
        dot == v + nd + 1
        ns == LeadCount(Drop(desc, dot), Digits \cup Lower \cup Upper \cup {"."})
        vend == dot + ns
        line == Drop(desc, vend + 1)
        nl == LeadCount(line, Chars(line) \ {"\n"})
    IN  IF /\ nd >= 1
           /\ Len(desc) >= dot /\ desc[dot] = "."
           /\ ns >= 1
           /\ Len(desc) > vend /\ desc[vend + 1] = " "
           /\ nl >= 1
          THEN Some([version |-> Take(desc, vend), desc |-> Take(line, nl)])
          ELSE None

ParamMeta(args, desc) ==
    LET match == MatchDefault(desc)
        default == IF match # None THEN Some(rstripChars(match[1], {"."}))
                   ELSE None
    IN  IF Len(args) = 3
          THEN IF endswith(args[2], <<"?">>)
                 THEN Return(DocstringParam(args, desc, args[3],
                        Some(Take(args[2], Len(args[2]) - 1)), Some(TRUE),
                        default))
                 ELSE Return(DocstringParam(args, desc, args[3],
                        Some(args[2]), Some(FALSE), default))
        ELSE IF Len(args) = 2
          THEN Return(DocstringParam(args, desc, args[2], None, None, default))
        ELSE Raise("ParseError")

ReturnsMeta(args, desc) ==
    IF Len(args) = 2
      THEN Return(DocstringReturns(args, desc, Some(args[2]),
                                   args[1] \in YIELDS_KEYWORDS))
    ELSE IF Len(args) = 1
      THEN Return(DocstringReturns(args, desc, None,
                                   args[1] \in YIELDS_KEYWORDS))
    ELSE Raise("ParseError")

DeprecatedMeta(args, desc) ==
    LET match == MatchVersion(desc)
    IN  Return(DocstringDeprecated(args,
                 IF match # None THEN match[1].desc ELSE desc,
                 IF match # None THEN Some(match[1].version) ELSE None))

RaisesMeta(args, desc) ==
    IF Len(args) = 2
      THEN Return(DocstringRaises(args, desc, Some(args[2])))
    ELSE IF Len(args) = 1
      THEN Return(DocstringRaises(args, desc, None))
    ELSE Raise("ParseError")

\* key = args[0] raises IndexError on an empty list.
_build_meta(args, desc) ==
    IF args = <<>> THEN Raise("IndexError")
    ELSE IF args[1] \in PARAM_KEYWORDS THEN ParamMeta(args, desc)
    ELSE IF args[1] \in RETURNS_KEYWORDS \cup YIELDS_KEYWORDS
      THEN ReturnsMeta(args, desc)
    ELSE IF args[1] \in DEPRECATION_KEYWORDS THEN DeprecatedMeta(args, desc)
    ELSE IF args[1] \in RAISES_KEYWORDS THEN RaisesMeta(args, desc)
    ELSE Return(DocstringMeta(args, desc))

---------------------------------------------------------------------------
(* parse *)

\* TagStarts for the expression "^ *:": the ":" may follow indentation.
TagStartsIndented(s) ==
    {i \in 1..Len(s) :
       /\ s[i] = ":"
       /\ \E j \in 1..i : /\ (j = 1 \/ s[j - 1] = "\n")
                          /\ \A m \in j..(i - 1) : s[m] = " "}

\* The places where a line starts with ":" (the regular expression "^:"
\* under re.M).
TagStarts(s) == {i \in 1..Len(s) : s[i] = ":" /\ (i = 1 \/ s[i - 1] = "\n")}

\* re.finditer(r"(^:.*?)(?=^:|\Z)", meta_chunk, flags=re.S | re.M): each
\* match starts at a line-initial ":" and runs to the next one, or to the
\* end of the text.
RECURSIVE Chunks(_)
Chunks(meta_chunk) ==
    IF TagStarts(meta_chunk) = {} THEN <<>>
    ELSE LET b == Min(TagStarts(meta_chunk))
             later == {i \in TagStarts(meta_chunk) : i > b}
             e == IF later = {} THEN Len(meta_chunk) ELSE Min(later) - 1
         IN  <<SubSeq(meta_chunk, b, e)>> \o Chunks(Drop(meta_chunk, e))

\* The body of parse's loop for one chunk: the record built, or the error.
ParseChunk(chunk) ==
    LET parts == split1(lstripChars(chunk, {":"}), ":")
    IN  IF Len(parts) < 2 THEN Raise("ParseError")
        ELSE LET args == splitWs(parts[1])
                 stripped == strip(parts[2])
                 lr == split1(stripped, "\n")
                 desc == IF "\n" \in Chars(stripped)
                           THEN lr[1] \o <<"\n">> \o cleandoc(lr[2])
                           ELSE stripped
             IN  _build_meta(args, desc)

\* parse's loop: the records of the chunks in order; the first error ends it.
RECURSIVE ParseMeta(_, _)
ParseMeta(chunks, meta) ==
    IF chunks = <<>> THEN Return(meta)
    ELSE LET r == ParseChunk(chunks[1])
         IN  IF r.status = "ok"
               THEN ParseMeta(Tail(chunks), Append(meta, r.value[1]))
               ELSE r

\* ret.short_description = parts[0] or None
ShortDescription(parts) == IF parts[1] # <<>> THEN Some(parts[1]) ELSE None

\* ret.blank_after_short_description = long_desc_chunk.startswith("\n")
BlankAfterShort(long_desc_chunk) == startswith(long_desc_chunk, <<"\n">>)

\* BlankAfterLong for long_desc_chunk.endswith("\n")
BlankAfterLongOne(long_desc_chunk) == endswith(long_desc_chunk, <<"\n">>)

\* ret.blank_after_long_description = long_desc_chunk.endswith("\n\n")
BlankAfterLong(long_desc_chunk) == endswith(long_desc_chunk, <<"\n", "\n">>)

\* ret.long_description = long_desc_chunk.strip() or None
LongDescription(long_desc_chunk) ==
    IF strip(long_desc_chunk) # <<>> THEN Some(strip(long_desc_chunk))
    ELSE None

\* parse(text)
parse(t) ==
    IF t = <<>> THEN Return(Docstring)
    ELSE
      LET cleaned == cleandoc(t)
          tags == TagStarts(cleaned)
          desc_chunk == IF tags # {} THEN Take(cleaned, Min(tags) - 1)
                        ELSE cleaned
          meta_chunk == IF tags # {} THEN Drop(cleaned, Min(tags) - 1)
                        ELSE <<>>
          parts == split1(desc_chunk, "\n")
          meta == ParseMeta(Chunks(meta_chunk), <<>>)
      IN  IF meta.status # "ok" THEN meta
          ELSE Return(
            [short_description |-> ShortDescription(parts),
             long_description |->
               IF Len(parts) > 1 THEN LongDescription(parts[2])
               ELSE Docstring.long_description,
             blank_after_short_description |->
               IF Len(parts) > 1 THEN BlankAfterShort(parts[2])
               ELSE Docstring.blank_after_short_description,
             blank_after_long_description |->
               IF Len(parts) > 1 THEN BlankAfterLong(parts[2])
               ELSE Docstring.blank_after_long_description,
             meta |-> meta.value[1]])

---------------------------------------------------------------------------
(* compose *)

indent == <<" ", " ", " ", " ">>

Styles == {"COMPACT", "CLEAN", "EXPANDED"}

\* [pre + line for line in lines]
Prefixed(pre, lines) == [i \in 1..Len(lines) |-> pre \o lines[i]]

process_desc(desc, rendering_style) ==
    IF desc = <<>> THEN <<>>
    ELSE LET ls == splitlines(desc)
         IN  IF rendering_style = "CLEAN"
               THEN join(<<<<" ">> \o ls[1]>> \o Prefixed(indent, Tail(ls)),
                         <<"\n">>)
             ELSE IF rendering_style = "EXPANDED"
               THEN join(<<<<"\n">> \o indent \o ls[1]>>
                           \o Prefixed(indent, Tail(ls)), <<"\n">>)
             ELSE <<" ">> \o desc

Word(s) == [i \in 1..Len(s) |-> s[i]]

\* The text of one record.
ComposeMeta(meta, rendering_style) ==
    LET typed == meta.type_name # None /\ meta.type_name[1] # <<>>
        desc == process_desc(meta.description, rendering_style)
    IN  IF meta.kind = "param"
          THEN <<":","p","a","r","a","m">>
               \o (IF typed
                     THEN IF meta.is_optional = Some(TRUE)
                            THEN <<" ">> \o meta.type_name[1] \o <<"?", " ">>
                            ELSE <<" ">> \o meta.type_name[1] \o <<" ">>
                     ELSE <<" ">>)
               \o meta.arg_name[1] \o <<":">> \o desc
        ELSE IF meta.kind = "returns"
          THEN <<":">>
               \o (IF meta.is_generator = Some(TRUE)
                     THEN <<"y","i","e","l","d","s">>
                     ELSE <<"r","e","t","u","r","n","s">>)
               \o (IF typed THEN <<" ">> \o meta.type_name[1] \o <<" ">>
                   ELSE <<>>)
               \o <<":">> \o desc
        ELSE IF meta.kind = "raises"
          THEN <<":","r","a","i","s","e","s">>
               \o (IF typed THEN <<" ">> \o meta.type_name[1] \o <<" ">>
                   ELSE <<>>)
               \o <<":">> \o desc
        ELSE <<":">> \o join(meta.args, <<" ">>) \o <<":">> \o desc

\* compose(docstring, rendering_style) with the default indent
compose(docstring, rendering_style) ==
    LET parts ==
          (IF docstring.short_description # None
             THEN <<docstring.short_description[1]>> ELSE <<>>)
          \o (IF docstring.blank_after_short_description
                THEN << <<>> >> ELSE <<>>)
          \o (IF docstring.long_description # None
                THEN <<docstring.long_description[1]>> ELSE <<>>)
          \o (IF docstring.blank_after_long_description
                THEN << <<>> >> ELSE <<>>)
          \o [i \in 1..Len(docstring.meta) |->
                ComposeMeta(docstring.meta[i], rendering_style)]
    IN  join(parts, <<"\n">>)

---------------------------------------------------------------------------
(* The input texts *)

\* The texts of at most n lines, each line one of V.
TextsOver(V, n) ==
    {join(ls, <<"\n">>) : ls \in UNION {[1..k -> V] : k \in 0..n}}

---------------------------------------------------------------------------
(* The state machine: parse(text), compose of the document in one of the *)
(* styles, parse of the rendered text, compose of that document.         *)

InitOn(texts) ==
    /\ text \in texts
    /\ pc = "start"
    /\ ret = Raise("none")
    /\ style = "COMPACT"
    /\ out = <<>>
    /\ ret2 = Raise("none")
    /\ out2 = <<>>

Parse ==
    /\ pc = "start"
    /\ ret' = parse(text)
    /\ pc' = "parsed"
    /\ UNCHANGED <<text, style, out, ret2, out2>>

Compose ==
    /\ pc = "parsed"
    /\ ret.status = "ok"
    /\ \E s \in Styles :
         /\ style' = s
         /\ out' = compose(ret.value[1], s)
    /\ pc' = "composed"
    /\ UNCHANGED <<text, ret, ret2, out2>>

Reparse ==
    /\ pc = "composed"
    /\ ret2' = parse(out)
    /\ pc' = "reparsed"
    /\ UNCHANGED <<text, ret, style, out, out2>>

Recompose ==
    /\ pc = "reparsed"
    /\ ret2.status = "ok"
    /\ out2' = compose(ret2.value[1], style)
    /\ pc' = "done"
    /\ UNCHANGED <<text, ret, style, out, ret2>>

Next == Parse \/ Compose \/ Reparse \/ Recompose

---------------------------------------------------------------------------
(* The round trip parse, compose, parse, compose *)

\* The number of lines of an input text.
MaxLines == 3

\* Lines of every record variant, of the preamble and of continuations.
RoundTripLines ==
    {\* 'Doc'
     <<"D","o","c">>,
     \* ''
     <<>>,
     \* ':param int? x: n'
     <<":","p","a","r","a","m"," ","i","n","t","?"," ","x",":"," ",
       "n">>,
     \* ':yields int: v'
     <<":","y","i","e","l","d","s"," ","i","n","t",":"," ","v">>,
     \* ':raises E: e'
     <<":","r","a","i","s","e","s"," ","E",":"," ","e">>,
     \* ':deprecated: 1.2 3.4 d'
     <<":","d","e","p","r","e","c","a","t","e","d",":"," ","1",".","2",
       " ","3",".","4"," ","d">>,
     \* ':note: t'
     <<":","n","o","t","e",":"," ","t">>,
     \* '  :see'
     <<" "," ",":","s","e","e">>,
     \* 'more'
     <<"m","o","r","e">>}

Init == InitOn(TextsOver(RoundTripLines, MaxLines))

Spec == Init /\ [][Next]_vars

\* The document parse returned, and the one the second parse returned.
Doc == ret.value[1]
Doc2 == ret2.value[1]

\* C1: the COMPACT round trip is idempotent: whenever parse(text) returns a
\* document, the COMPACT rendering of it parses again without error, and
\* rendering that second document in COMPACT gives the same text.
C1_CompactIdempotent ==
    style = "COMPACT" =>
      /\ pc = "reparsed" => ret2.status = "ok"
      /\ pc = "done" => out2 = out

\* C2: in every style the rendered text parses without error into as many
\* items as the document has, each with the raw_tokens and the description
\* of the item at its position.
C2_RecordRoundTrip ==
    pc \in {"reparsed", "done"} =>
      /\ ret2.status = "ok"
      /\ Len(Doc2.meta) = Len(Doc.meta)
      /\ \A i \in 1..Len(Doc.meta) :
           /\ Doc2.meta[i].args = Doc.meta[i].args
           /\ Doc2.meta[i].description = Doc.meta[i].description

\* C3: rendering loses no parsed information: in every style the items of
\* the re-parsed document have the variant and the structured fields of the
\* items of the document, and the short and long description and both
\* blank-line flags are equal (stated for the renderings that parse again;
\* C2 is about the others).
C3_NoInformationLost ==
    (pc \in {"reparsed", "done"} /\ ret2.status = "ok") =>
      /\ Len(Doc2.meta) = Len(Doc.meta)
      /\ \A i \in 1..Len(Doc.meta) :
           /\ Doc2.meta[i].kind = Doc.meta[i].kind
           /\ Doc2.meta[i].arg_name = Doc.meta[i].arg_name
           /\ Doc2.meta[i].type_name = Doc.meta[i].type_name
           /\ Doc2.meta[i].is_optional = Doc.meta[i].is_optional
           /\ Doc2.meta[i].default = Doc.meta[i].default
           /\ Doc2.meta[i].is_generator = Doc.meta[i].is_generator
           /\ Doc2.meta[i].version = Doc.meta[i].version
      /\ Doc2.short_description = Doc.short_description
      /\ Doc2.long_description = Doc.long_description
      /\ Doc2.blank_after_short_description = Doc.blank_after_short_description
      /\ Doc2.blank_after_long_description = Doc.blank_after_long_description

---------------------------------------------------------------------------
(* The blocks of a text, read off its lines *)

\* The lines of the normalized text.
SourceLines(t) == split(cleandoc(t), "\n")

IsTagLine(l) == l # <<>> /\ l[1] = ":"

\* The lines grouped into blocks: a block is a line that starts with ":"
\* and the lines that follow it up to the next such line.  The lines before
\* the first block are the preamble.
RECURSIVE GroupBlocks(_, _)
GroupBlocks(lines, acc) ==
    IF lines = <<>> THEN acc
    ELSE IF IsTagLine(Head(lines))
      THEN GroupBlocks(Tail(lines), Append(acc, <<Head(lines)>>))
    ELSE IF acc = <<>> THEN GroupBlocks(Tail(lines), acc)
    ELSE GroupBlocks(Tail(lines),
                     [acc EXCEPT ![Len(acc)] = Append(@, Head(lines))])

Blocks(t) == GroupBlocks(SourceLines(t), <<>>)

\* A block without its leading delimiter; its tag chunk and its body are
\* the parts before and after the next ":".
BlockHead(b) == lstripChars(join(b, <<"\n">>), {":"})
HasDelimiter(b) == ":" \in Chars(BlockHead(b))
BlockTokens(b) == splitWs(split1(BlockHead(b), ":")[1])
BlockBody(b) == split1(BlockHead(b), ":")[2]

---------------------------------------------------------------------------
(* Classification: the errors and the arity rules *)

\* Blocks of every family with each number of tokens, a block with no token
\* and a block with no second delimiter.
ClassifyLines ==
    {\* 'Doc'
     <<"D","o","c">>,
     \* ':param x: a'
     <<":","p","a","r","a","m"," ","x",":"," ","a">>,
     \* ':param t x y: a'
     <<":","p","a","r","a","m"," ","t"," ","x"," ","y",":"," ","a">>,
     \* ':param: a'
     <<":","p","a","r","a","m",":"," ","a">>,
     \* ':returns a b: c'
     <<":","r","e","t","u","r","n","s"," ","a"," ","b",":"," ","c">>,
     \* ':yields: r'
     <<":","y","i","e","l","d","s",":"," ","r">>,
     \* ':raises E: e'
     <<":","r","a","i","s","e","s"," ","E",":"," ","e">>,
     \* ':raises A B: e'
     <<":","r","a","i","s","e","s"," ","A"," ","B",":"," ","e">>,
     \* ': : z'
     <<":"," ",":"," ","z">>,
     \* ':oops'
     <<":","o","o","p","s">>,
     \* ':note a b c: n'
     <<":","n","o","t","e"," ","a"," ","b"," ","c",":"," ","n">>}

InitClassify == InitOn(TextsOver(ClassifyLines, MaxLines))

SpecClassify == InitClassify /\ [][Next]_vars

\* C4: ParseError is the only failure of parse: parse returns a document
\* whose items all carry at least one raw token, or fails with ParseError;
\* a text with a block that has no second ":" yields no document.
C4_OnlyParseError ==
    pc # "start" =>
      /\ ret.status \in {"ok", "ParseError"}
      /\ ret.status = "ok" =>
           \A i \in 1..Len(Doc.meta) : Len(Doc.meta[i].args) >= 1
      /\ LET bs == Blocks(text)
         IN  (\E k \in 1..Len(bs) : ~HasDelimiter(bs[k])) => ret.status # "ok"

\* A block has a keyword of a family with an arity rule and breaks the rule.
ArityViolated(b) ==
    /\ HasDelimiter(b)
    /\ BlockTokens(b) # <<>>
    /\ \/ /\ BlockTokens(b)[1] \in PARAM_KEYWORDS
          /\ Len(BlockTokens(b)) \notin {2, 3}
       \/ /\ BlockTokens(b)[1] \in
               RETURNS_KEYWORDS \cup YIELDS_KEYWORDS \cup RAISES_KEYWORDS
          /\ Len(BlockTokens(b)) \notin {1, 2}

\* C5: the arity rules decide failure exactly: when a block breaks the
\* arity rule of its family the whole parse fails with ParseError, and in a
\* returned document a param block is a Param record with 2 or 3 tokens, a
\* returns, yields or raises block its record with 1 or 2 tokens.
C5_ArityDecidesFailure ==
    pc # "start" =>
      LET bs == Blocks(text)
      IN  /\ (\E k \in 1..Len(bs) : ArityViolated(bs[k]))
               => ret.status = "ParseError"
          /\ ret.status = "ok" =>
               \A k \in 1..Len(Doc.meta) :
                 LET key == BlockTokens(bs[k])[1]
                     n == Len(Doc.meta[k].args)
                 IN  /\ key \in PARAM_KEYWORDS
                          => Doc.meta[k].kind = "param" /\ n \in {2, 3}
                     /\ key \in RETURNS_KEYWORDS \cup YIELDS_KEYWORDS
                          => Doc.meta[k].kind = "returns" /\ n \in {1, 2}
                     /\ key \in RAISES_KEYWORDS
                          => Doc.meta[k].kind = "raises" /\ n \in {1, 2}

---------------------------------------------------------------------------
(* Deprecated records: the version *)

\* Deprecated blocks with and without a version, a block of another family
\* with one, and lines that continue a body.
DeprecatedLines ==
    {\* ':deprecated: 1.2.3 old'
     <<":","d","e","p","r","e","c","a","t","e","d",":"," ","1",".","2",
       ".","3"," ","o","l","d">>,
     \* ':deprecated: v2.0 use y'
     <<":","d","e","p","r","e","c","a","t","e","d",":"," ","v","2",".",
       "0"," ","u","s","e"," ","y">>,
     \* ':deprecated: soon'
     <<":","d","e","p","r","e","c","a","t","e","d",":"," ","s","o","o",
       "n">>,
     \* ':deprecated: 1.2.3'
     <<":","d","e","p","r","e","c","a","t","e","d",":"," ","1",".","2",
       ".","3">>,
     \* ':note: 1.2.3 n'
     <<":","n","o","t","e",":"," ","1",".","2",".","3"," ","n">>,
     \* 'more'
     <<"m","o","r","e">>,
     \* 'Doc'
     <<"D","o","c">>}

\* The version tokens of DeprecatedLines.
VersionTokens == {<<"1", ".", "2", ".", "3">>, <<"v", "2", ".", "0">>}

InitDeprecated == InitOn(TextsOver(DeprecatedLines, MaxLines))

SpecDeprecated == InitDeprecated /\ [][Next]_vars

\* C6: a deprecated block whose body is a version token, one space and a
\* text T (of one or several lines) has that token as its version and T,
\* the whole remainder, as its description; a deprecated block whose body
\* does not start with a version token has no version and its body as its
\* description.
C6_VersionExtraction ==
    (pc # "start" /\ ret.status = "ok") =>
      LET bs == Blocks(text)
      IN  \A k \in 1..Len(Doc.meta) :
            BlockTokens(bs[k])[1] \in DEPRECATION_KEYWORDS =>
              LET body == strip(BlockBody(bs[k]))
              IN  /\ \A v \in VersionTokens :
                       (startswith(body, v \o <<" ">>) /\ Len(body) > Len(v) + 1)
                         => /\ Doc.meta[k].version = Some(v)
                            /\ Doc.meta[k].description = Drop(body, Len(v) + 1)
                  /\ (\A v \in VersionTokens : ~startswith(body, v))
                       => /\ Doc.meta[k].version = None
                          /\ Doc.meta[k].description = body

---------------------------------------------------------------------------
(* The scan for blocks and the dedent of their bodies *)

\* The number of lines of an input text of the scan.
MaxScanLines == 3

\* Blocks of three families, one with a ":" inside its line, indented
\* lines, one of them starting with ":", a tag line with no second ":" and
\* a line that can end its tag chunk.
ScanLines ==
    {\* 'Doc'
     <<"D","o","c">>,
     \* ':note k: a:b'
     <<":","n","o","t","e"," ","k",":"," ","a",":","b">>,
     \* ':raises E: c'
     <<":","r","a","i","s","e","s"," ","E",":"," ","c">>,
     \* ':param x: p'
     <<":","p","a","r","a","m"," ","x",":"," ","p">>,
     \* '  :d: e'
     <<" "," ",":","d",":"," ","e">>,
     \* '    f'
     <<" "," "," "," ","f">>,
     \* ':k'
     <<":","k">>,
     \* 'c: y'
     <<"c",":"," ","y">>}

InitScan == InitOn(TextsOver(ScanLines, MaxScanLines))

SpecScan == InitScan /\ [][Next]_vars

NotSpace(c) == ~IsSpace(c)

\* The characters of s that are not whitespace.
Ink(s) == SelectSeq(s, NotSpace)

Dedented(body) ==
    LET ls == split(body, "\n")
        rest == Tail(ls)
        indents == {LeadCount(rest[i], Whitespace) :
                      i \in {j \in 1..Len(rest) : lstrip(rest[j]) # <<>>}}
    IN  join(<<ls[1]>> \o [i \in 1..Len(rest) |-> Drop(rest[i], Min(indents))],
             <<"\n">>)

\* C9: when the stripped body of a block spans several lines, the
\* description is its first line followed by all the other lines without
\* their common indentation: no line is dropped, and any two continuation
\* lines differ in indentation as they do in the source.
C9_DedentKeepsRelativeIndent ==
    (pc # "start" /\ ret.status = "ok") =>
      LET bs == Blocks(text)
      IN  \A k \in 1..Len(Doc.meta) :
            LET body == strip(BlockBody(bs[k]))
            IN  (Doc.meta[k].kind # "deprecated" /\ "\n" \in Chars(body))
                  => Doc.meta[k].description = Dedented(body)

---------------------------------------------------------------------------
(* Param records: the optional type and the default *)

\* The number of lines of an input text with param blocks.
MaxParamLines == 2

ParamTypes == {<<"i","n","t">>, <<"T","?">>}
ParamNames == {<<"x">>}
DefaultPhrases == {DefaultsTo,
                   <<"D","e","f","a","u","l","t","s"," ","t","o"," ">>}
DefaultValues == {<<"1">>, <<"a",".","b",".">>}

\* The line ":param <type>? <name>: <phrase>X."
ParamBlock(ty, nm, ph, X) ==
    <<":","p","a","r","a","m"," ">> \o ty \o <<"?"," ">> \o nm
      \o <<":"," ">> \o ph \o X \o <<".">>

\* Lines that continue a body: one with the phrase again, one without.
MoreLines ==
    {\* 'or defaults to 2.'
     <<"o","r"," ","d","e","f","a","u","l","t","s"," ","t","o"," ","2",
       ".">>,
     \* 'Doc'
     <<"D","o","c">>}

ParamLines ==
    {ParamBlock(ty, nm, ph, X) :
       ty \in ParamTypes, nm \in ParamNames, ph \in DefaultPhrases,
       X \in DefaultValues}
    \cup MoreLines

InitParam == InitOn(TextsOver(ParamLines, MaxParamLines))

SpecParam == InitParam /\ [][Next]_vars

\* The fields of a record for ":param <type>? <name>:".
IsOptionalParam(m, ty, nm) ==
    /\ m.kind = "param"
    /\ m.arg_name = Some(nm)
    /\ m.type_name = Some(ty)
    /\ m.is_optional = Some(TRUE)

\* C7 as claimed: the block ":param <type>? <name>: defaults to X.", the
\* phrase in either case, parses to a Param with that name, is_optional
\* true, the type without its one trailing "?", and the default X without
\* its trailing periods.
C7_DefaultAnyCase ==
    pc # "start" =>
      \A ty \in ParamTypes, nm \in ParamNames, ph \in DefaultPhrases,
         X \in DefaultValues :
        text = ParamBlock(ty, nm, ph, X) =>
          /\ ret.status = "ok"
          /\ Len(Doc.meta) = 1
          /\ IsOptionalParam(Doc.meta[1], ty, nm)
          /\ Doc.meta[1].default = Some(rstripChars(X, {"."}))

\* The text after the last "defaults to " of desc that has text after it,
\* looked for from position i down.
RECURSIVE AfterLastPhrase(_, _)
AfterLastPhrase(desc, i) ==
    IF i < 1 THEN None
    ELSE IF /\ i + Len(DefaultsTo) <= Len(desc)
            /\ SubSeq(desc, i, i + Len(DefaultsTo) - 1) = DefaultsTo
      THEN Some(SubSeq(desc, i + Len(DefaultsTo), Len(desc)))
    ELSE AfterLastPhrase(desc, i - 1)

\* C7 as amended: a block that starts with the line
\* ":param <type>? <name>: <phrase>X." is a Param with that name,
\* is_optional true and the type without its one trailing "?"; its default
\* is the text after the last lower-case "defaults to " of its description,
\* without trailing periods, and is absent when the description has no
\* lower-case "defaults to ".  For the line alone that is X without its
\* trailing periods when the phrase is in lower case, and no default when
\* it is capitalised.
C7_DefaultCaseSensitive ==
    (pc # "start" /\ ret.status = "ok") =>
      LET bs == Blocks(text)
      IN  \A k \in 1..Len(bs) :
            \A ty \in ParamTypes, nm \in ParamNames, ph \in DefaultPhrases,
               X \in DefaultValues :
              bs[k][1] = ParamBlock(ty, nm, ph, X) =>
                LET m == Doc.meta[k]
                    found == AfterLastPhrase(m.description, Len(m.description))
                IN  /\ IsOptionalParam(m, ty, nm)
                    /\ m.description = strip(BlockBody(bs[k]))
                    /\ m.default = IF found = None THEN None
                                   ELSE Some(rstripChars(found[1], {"."}))
                    /\ Len(bs[k]) = 1 =>
                         m.default = IF ph = DefaultsTo
                                       THEN Some(rstripChars(X, {"."}))
                                       ELSE None

\* Reached: the block ":param T?? x: defaults to a.b.." parsed to type "T?"
\* and default "a.b".
C7_Witness ==
    /\ pc = "parsed"
    /\ text = ParamBlock(<<"T","?">>, <<"x">>, DefaultsTo, <<"a",".","b",".">>)
    /\ ret.status = "ok"
    /\ IsOptionalParam(Doc.meta[1], <<"T","?">>, <<"x">>)
    /\ Doc.meta[1].default = Some(<<"a",".","b">>)

---------------------------------------------------------------------------
(* The preamble: the descriptions and the blank-line flags *)

\* The number of lines of an input text with a preamble.
MaxPreambleLines == 4

\* Lines of a preamble, blank or not, indented or not, and one block.
PreambleLines ==
    {\* 'Doc'
     <<"D","o","c">>,
     \* ''
     <<>>,
     \* 'more'
     <<"m","o","r","e">>,
     \* '  ind '
     <<" "," ","i","n","d"," ">>,
     \* ' '
     <<" ">>,
     \* ':tag: d'
     <<":","t","a","g",":"," ","d">>}

InitPreamble == InitOn(TextsOver(PreambleLines, MaxPreambleLines))

SpecPreamble == InitPreamble /\ [][Next]_vars

\* The lines of ls before the first one that starts with ":".
RECURSIVE PreambleOf(_)
PreambleOf(ls) ==
    IF ls = <<>> \/ IsTagLine(Head(ls)) THEN <<>>
    ELSE <<Head(ls)>> \o PreambleOf(Tail(ls))

\* C10: with P the normalized text before the first line that starts with
\* ":", short_description is P up to its first line break (absent if
\* empty); with R the rest of P after that line break,
\* blank_after_short is "R begins with a line break", blank_after_long is
\* "R ends with two line breaks" and long_description is R stripped (absent
\* if empty); with no line break in P both flags are false and there is no
\* long description.  The empty text gives the empty document.
C10_PreambleSplit ==
    pc # "start" =>
      IF text = <<>> THEN ret = Return(Docstring)
      ELSE ret.status = "ok" =>
        LET ls == SourceLines(text)
            pre == PreambleOf(ls)
            \* P ends with a line break when a block follows it
            plines == IF Len(pre) < Len(ls) /\ pre # <<>>
                        THEN pre \o << <<>> >> ELSE pre
            R == join(Tail(plines), <<"\n">>)
        IN  /\ Doc.short_description =
                 IF pre # <<>> /\ pre[1] # <<>> THEN Some(pre[1]) ELSE None
            /\ IF Len(plines) >= 2
                 THEN /\ Doc.blank_after_short_description = (R # <<>> /\ R[1] = "\n")
                      /\ Doc.blank_after_long_description =
                           (Len(R) >= 2 /\ R[Len(R)] = "\n" /\ R[Len(R) - 1] = "\n")
                      /\ Doc.long_description =
                           IF strip(R) # <<>> THEN Some(strip(R)) ELSE None
                 ELSE /\ ~Doc.blank_after_short_description
                      /\ ~Doc.blank_after_long_description
                      /\ Doc.long_description = None

\* Reached: a document with a short and a long description, no blank line
\* between them and one after the long description.
C10_Witness ==
    /\ pc = "parsed"
    /\ ret.status = "ok"
    /\ Doc.short_description # None
    /\ Doc.long_description # None
    /\ ~Doc.blank_after_short_description
    /\ Doc.blank_after_long_description
    /\ Len(Doc.meta) = 1

=============================================================================
